---- MODULE Spec2Model ----
(***************************************************************************)
(* Model of the two console programs of pattern-algorithms:                *)
(*   concentric-square/concentric_square.c  (print_concentric_square,      *)
(*                                           visualize_regions, main)      *)
(*   triangle/triangle.c                    (print_triangle, main)         *)
(* Each run starts one of the two programs on one standard-input token.    *)
(* Every printf of the source is modelled by what it appends to stdout,    *)
(* which is kept as the finished lines and the line being written.         *)
(***************************************************************************)
EXTENDS Integers, Sequences, FiniteSets

VARIABLES
    prog,     \* which executable runs: "square" or "triangle"
    stdin,    \* the token scanf("%d") meets: [parsed, val]
    pc,       \* position of the running program
    ret,      \* position in main the running function returns to
    size,     \* main's local `size`
    n,        \* parameter n of the running function
    m,        \* local m of print_concentric_square / visualize_regions
    i,        \* loop counter i
    j,        \* loop counter j
    total,    \* local total of print_triangle
    row,      \* local row of print_triangle
    stdout,   \* [lines |-> finished lines, line |-> tokens of the open line]
    mark,     \* number of finished lines when the running function was entered
    calls,    \* history: the function calls that have returned, in order
    status    \* exit status of the process, NoStatus while it runs

vars == <<prog, stdin, pc, ret, size, n, m, i, j, total, row, stdout, mark, calls, status>>

---------------------------------------------------------------------------
(* Bounds of the model *)

\* width in bits of the modelled C int (two's complement, overflow wraps)
IntBits == 8
\* user inputs of Spec range over -NegN .. MaxN
MaxN == 8
NegN == 5

---------------------------------------------------------------------------
(* C int arithmetic *)

INT_MAX == 2^(IntBits - 1) - 1
INT_MIN == -(2^(IntBits - 1))

Wrap(x) == ((x - INT_MIN) % 2^IntBits) + INT_MIN

IntAdd(a, b) == Wrap(a + b)
IntSub(a, b) == Wrap(a - b)
IntMul(a, b) == Wrap(a * b)
\* C division truncates toward zero; the source only divides by 2
IntDiv(a, b) == IF a >= 0 THEN a \div b ELSE -((-a) \div b)

\* #define MAX(a, b) ((a) > (b) ? (a) : (b))
MAX(a, b) == IF a > b THEN a ELSE b

---------------------------------------------------------------------------
(* stdout *)

\* one printf conversion or literal piece: the format text and its argument
Tok(f, a) == [fmt |-> f, arg |-> a]

\* printf of a literal without line break
Text(o, s) == [o EXCEPT !.line = Append(@, Tok(s, 0))]
\* printf("%d ", v)
Num(o, v) == [o EXCEPT !.line = Append(@, Tok("%d ", v))]
\* a "\n" inside or at the end of a format string
NL(o) == [lines |-> Append(o.lines, o.line), line |-> <<>>]

ErrMsg == "Error: n must be a positive integer"
InvalidMsg == "Invalid input. Please enter a positive integer."
VizHeader == "Region visualization (U = Upper-left, L = Lower-right):"
Glyph == "* "

\* status of a process that has not exited: no value of the int type
NoStatus == INT_MIN - 1

\* history record of a call of f that returns leaving stdout as o: the finished
\* lines it wrote (first .. last) and the tokens it left on the open line
Returned(f, o) ==
    Append(calls, [fn |-> f, n |-> n, first |-> mark + 1,
                   last |-> Len(o.lines), open |-> o.line])

---------------------------------------------------------------------------
(* concentric_square.c *)

\* variant: the upper-left value taken from the row distance alone
UpperLeft_rowOnly(nn, ii, jj) == IntSub(nn, ii)
\* upper-left formula, line 93
UpperLeft(nn, ii, jj) == MAX(IntSub(nn, ii), IntSub(nn, jj))
\* variant: the offset of the lower-right formula off by one
LowerRight_plusOne(nn, ii, jj) == IntAdd(MAX(IntSub(ii, nn), IntSub(jj, nn)), 1)
\* lower-right formula, line 119
LowerRight(nn, ii, jj) == IntAdd(MAX(IntSub(ii, nn), IntSub(jj, nn)), 2)
\* variant: the region test taking in the diagonal below the anti-diagonal
InUpper_wide(mm, ii, jj) == IntAdd(ii, jj) <= mm
\* the region test of lines 74 and 140
InUpper(mm, ii, jj) == IntAdd(ii, jj) < mm
\* the value printed for cell (ii, jj), lines 74-120
CellValue(nn, mm, ii, jj) ==
    IF InUpper(mm, ii, jj) THEN UpperLeft(nn, ii, jj) ELSE LowerRight(nn, ii, jj)
\* the letter printed for cell (ii, jj), lines 140-144
RegionLetter(mm, ii, jj) == IF InUpper(mm, ii, jj) THEN "U " ELSE "L "
\* variant: the grid dimension without the - 1
GridSize_even(nn) == IntMul(2, nn)
\* int m = 2 * n - 1
GridSize(nn) == IntSub(IntMul(2, nn), 1)

\* variant: the validation letting n = 0 through
SquareRejects_negative(nn) == nn < 0
\* if (n <= 0) of print_concentric_square
SquareRejects(nn) == nn <= 0

\* only sizes up to this get the region visualization (main, line 170)
VizLimit == 7
\* variant: the visualization test as size < 7
ShowRegions_below(s) == s < VizLimit
\* if (size <= 7) of main
ShowRegions(s) == s <= VizLimit
\* the hard-coded example sizes of main
SquareExample1 == 3
SquareExample2 == 5

print_concentric_square_entry ==
    /\ pc = "pcs"
    /\ IF SquareRejects(n)
         THEN /\ stdout' = NL(Text(stdout, ErrMsg))
              /\ calls' = Returned("print_concentric_square", stdout')
              /\ pc' = ret
              /\ UNCHANGED <<m, i>>
         ELSE /\ m' = GridSize(n)
              /\ i' = 0
              /\ pc' = "pcs_i"
              /\ UNCHANGED <<stdout, calls>>
    /\ UNCHANGED <<prog, stdin, ret, size, n, j, total, row, mark, status>>

print_concentric_square_row ==
    /\ pc = "pcs_i"
    /\ IF i < m
         THEN /\ j' = 0
              /\ pc' = "pcs_j"
              /\ UNCHANGED calls
         ELSE /\ calls' = Returned("print_concentric_square", stdout)
              /\ pc' = ret
              /\ UNCHANGED j
    /\ UNCHANGED <<prog, stdin, ret, size, n, m, i, total, row, stdout, mark, status>>

print_concentric_square_cell ==
    /\ pc = "pcs_j"
    /\ j < m
    /\ stdout' = Num(stdout, CellValue(n, m, i, j))
    /\ j' = IntAdd(j, 1)
    /\ UNCHANGED <<prog, stdin, pc, ret, size, n, m, i, total, row, mark, calls, status>>

print_concentric_square_endrow ==
    /\ pc = "pcs_j"
    /\ ~(j < m)
    /\ stdout' = NL(stdout)
    /\ i' = IntAdd(i, 1)
    /\ pc' = "pcs_i"
    /\ UNCHANGED <<prog, stdin, ret, size, n, m, j, total, row, mark, calls, status>>

visualize_regions_entry ==
    /\ pc = "vr"
    /\ m' = GridSize(n)
    /\ stdout' = NL(Text(stdout, VizHeader))
    /\ i' = 0
    /\ pc' = "vr_i"
    /\ UNCHANGED <<prog, stdin, ret, size, n, j, total, row, mark, calls, status>>

visualize_regions_row ==
    /\ pc = "vr_i"
    /\ IF i < m
         THEN /\ j' = 0
              /\ pc' = "vr_j"
              /\ UNCHANGED <<stdout, calls>>
         ELSE /\ stdout' = NL(stdout)
              /\ calls' = Returned("visualize_regions", stdout')
              /\ pc' = ret
              /\ UNCHANGED j
    /\ UNCHANGED <<prog, stdin, ret, size, n, m, i, total, row, mark, status>>

visualize_regions_cell ==
    /\ pc = "vr_j"
    /\ j < m
    /\ stdout' = Text(stdout, RegionLetter(m, i, j))
    /\ j' = IntAdd(j, 1)
    /\ UNCHANGED <<prog, stdin, pc, ret, size, n, m, i, total, row, mark, calls, status>>

visualize_regions_endrow ==
    /\ pc = "vr_j"
    /\ ~(j < m)
    /\ stdout' = NL(stdout)
    /\ i' = IntAdd(i, 1)
    /\ pc' = "vr_i"
    /\ UNCHANGED <<prog, stdin, ret, size, n, m, j, total, row, mark, calls, status>>

\* main, lines 157-167: banner, prompt, scanf
square_main_scanf ==
    /\ prog = "square"
    /\ pc = "main"
    /\ LET banner == NL(NL(Text(NL(Text(stdout,
                       "Concentric Square Pattern - Diagonal Decomposition")),
                       "==================================================")))
           prompt == Text(banner, "Enter the size parameter n: ")
       IN  IF ~stdin.parsed
             THEN /\ stdout' = NL(Text(prompt, InvalidMsg))
                  /\ status' = 1
                  /\ pc' = "exit"
                  /\ UNCHANGED size
             ELSE /\ size' = stdin.val
                  /\ stdout' = NL(prompt)
                  /\ pc' = "sq_viz"
                  /\ UNCHANGED status
    /\ UNCHANGED <<prog, stdin, ret, n, m, i, j, total, row, mark, calls>>

\* main, lines 170-172
square_main_visualize ==
    /\ pc = "sq_viz"
    /\ IF ShowRegions(size)
         THEN /\ n' = size
              /\ mark' = Len(stdout.lines)
              /\ ret' = "sq_pattern"
              /\ pc' = "vr"
         ELSE /\ pc' = "sq_pattern"
              /\ UNCHANGED <<n, mark, ret>>
    /\ UNCHANGED <<prog, stdin, size, m, i, j, total, row, stdout, calls, status>>

\* main, lines 175-176
square_main_pattern ==
    /\ pc = "sq_pattern"
    /\ stdout' = NL(Text(stdout, "Concentric square pattern:"))
    /\ n' = size
    /\ mark' = Len(stdout'.lines)
    /\ ret' = "sq_ex1"
    /\ pc' = "pcs"
    /\ UNCHANGED <<prog, stdin, size, m, i, j, total, row, calls, status>>

\* main, lines 178-185
square_main_example1 ==
    /\ pc = "sq_ex1"
    /\ stdout' = NL(Text(NL(NL(Text(NL(Text(NL(NL(stdout)),
                     "Examples of other sizes:")),
                     "------------------------"))),
                     "n = 3:"))
    /\ n' = SquareExample1
    /\ mark' = Len(stdout'.lines)
    /\ ret' = "sq_ex2"
    /\ pc' = "pcs"
    /\ UNCHANGED <<prog, stdin, size, m, i, j, total, row, calls, status>>

\* main, lines 187-188
square_main_example2 ==
    /\ pc = "sq_ex2"
    /\ stdout' = NL(Text(NL(stdout), "n = 5:"))
    /\ n' = SquareExample2
    /\ mark' = Len(stdout'.lines)
    /\ ret' = "sq_ret"
    /\ pc' = "pcs"
    /\ UNCHANGED <<prog, stdin, size, m, i, j, total, row, calls, status>>

\* main, line 190
square_main_return ==
    /\ pc = "sq_ret"
    /\ status' = 0
    /\ pc' = "exit"
    /\ UNCHANGED <<prog, stdin, ret, size, n, m, i, j, total, row, stdout, mark, calls>>

---------------------------------------------------------------------------
(* triangle.c *)

\* if (n <= 0) of print_triangle
TriangleRejects(nn) == nn <= 0
\* variant: the total of a triangle one row shorter
Total_short(nn) == IntDiv(IntMul(nn, IntSub(nn, 1)), 2)
\* int total = n * (n + 1) / 2
Total(nn) == IntDiv(IntMul(nn, IntAdd(nn, 1)), 2)
\* variant: the row boundary without the division by 2
RowComplete_undivided(ii, rr) == ii = IntMul(rr, IntAdd(rr, 1))
\* i == row * (row + 1) / 2
RowComplete(ii, rr) == ii = IntDiv(IntMul(rr, IntAdd(rr, 1)), 2)

\* the hard-coded example sizes of main
TriangleExample1 == 3
\* variant: the second example size of the square program
TriangleExample2_square == SquareExample2
TriangleExample2 == 6

print_triangle_entry ==
    /\ pc = "pt"
    /\ IF TriangleRejects(n)
         THEN /\ stdout' = NL(Text(stdout, ErrMsg))
              /\ calls' = Returned("print_triangle", stdout')
              /\ pc' = ret
              /\ UNCHANGED <<total, row, i>>
         ELSE /\ total' = Total(n)
              /\ row' = 1
              /\ i' = 1
              /\ pc' = "pt_loop"
              /\ UNCHANGED <<stdout, calls>>
    /\ UNCHANGED <<prog, stdin, ret, size, n, m, j, mark, status>>

\* one iteration of the loop, lines 62-73
print_triangle_star ==
    /\ pc = "pt_loop"
    /\ i <= total
    /\ IF RowComplete(i, row)
         THEN /\ stdout' = NL(Text(stdout, Glyph))
              /\ row' = IntAdd(row, 1)
         ELSE /\ stdout' = Text(stdout, Glyph)
              /\ UNCHANGED row
    /\ i' = IntAdd(i, 1)
    /\ UNCHANGED <<prog, stdin, pc, ret, size, n, m, j, total, mark, calls, status>>

\* the loop condition fails: the function returns
print_triangle_return ==
    /\ pc = "pt_loop"
    /\ ~(i <= total)
    /\ calls' = Returned("print_triangle", stdout)
    /\ pc' = ret
    /\ UNCHANGED <<prog, stdin, ret, size, n, m, i, j, total, row, stdout, mark, status>>

\* main, lines 82-92
triangle_main_scanf ==
    /\ prog = "triangle"
    /\ pc = "main"
    /\ LET banner == NL(NL(Text(NL(Text(stdout,
                       "Right Triangle Pattern - Single Loop Implementation")),
                       "===================================================")))
           prompt == Text(banner, "Enter the height of the triangle: ")
       IN  IF ~stdin.parsed
             THEN /\ stdout' = NL(Text(prompt, InvalidMsg))
                  /\ status' = 1
                  /\ pc' = "exit"
                  /\ UNCHANGED size
             ELSE /\ size' = stdin.val
                  /\ stdout' = NL(prompt)
                  /\ pc' = "tr_user"
                  /\ UNCHANGED status
    /\ UNCHANGED <<prog, stdin, ret, n, m, i, j, total, row, mark, calls>>

\* main, line 95
triangle_main_user ==
    /\ pc = "tr_user"
    /\ n' = size
    /\ mark' = Len(stdout.lines)
    /\ ret' = "tr_ex1"
    /\ pc' = "pt"
    /\ UNCHANGED <<prog, stdin, size, m, i, j, total, row, stdout, calls, status>>

\* main, lines 97-104
triangle_main_example1 ==
    /\ pc = "tr_ex1"
    /\ stdout' = NL(Text(NL(NL(Text(NL(Text(NL(NL(stdout)),
                     "Examples of other sizes:")),
                     "------------------------"))),
                     "n = 3:"))
    /\ n' = TriangleExample1
    /\ mark' = Len(stdout'.lines)
    /\ ret' = "tr_ex2"
    /\ pc' = "pt"
    /\ UNCHANGED <<prog, stdin, size, m, i, j, total, row, calls, status>>

\* main, lines 106-107
triangle_main_example2 ==
    /\ pc = "tr_ex2"
    /\ stdout' = NL(Text(NL(stdout), "n = 6:"))
    /\ n' = TriangleExample2
    /\ mark' = Len(stdout'.lines)
    /\ ret' = "tr_ret"
    /\ pc' = "pt"
    /\ UNCHANGED <<prog, stdin, size, m, i, j, total, row, calls, status>>

\* main, line 109
triangle_main_return ==
    /\ pc = "tr_ret"
    /\ status' = 0
    /\ pc' = "exit"
    /\ UNCHANGED <<prog, stdin, ret, size, n, m, i, j, total, row, stdout, mark, calls>>

---------------------------------------------------------------------------
(* Specifications *)

NotParsed == [parsed |-> FALSE, val |-> 0]
Parsed(v) == [parsed |-> TRUE, val |-> v]

Start ==
    /\ pc = "main"
    /\ ret = "main"
    /\ size = 0 /\ n = 0 /\ m = 0 /\ i = 0 /\ j = 0 /\ total = 0 /\ row = 0
    /\ stdout = [lines |-> <<>>, line |-> <<>>]
    /\ mark = 0
    /\ calls = <<>>
    /\ status = NoStatus

\* either program, on a token that is no integer or an integer of -NegN .. MaxN
Init ==
    /\ prog \in {"square", "triangle"}
    /\ stdin \in {NotParsed} \cup {Parsed(v) : v \in (-NegN) .. MaxN}
    /\ Start

\* the triangle program on any token: every value of the int type, or no integer
InitInt ==
    /\ prog = "triangle"
    /\ stdin \in {NotParsed} \cup {Parsed(v) : v \in INT_MIN .. INT_MAX}
    /\ Start

NextSquare ==
    \/ square_main_scanf
    \/ square_main_visualize
    \/ square_main_pattern
    \/ square_main_example1
    \/ square_main_example2
    \/ square_main_return
    \/ visualize_regions_entry
    \/ visualize_regions_row
    \/ visualize_regions_cell
    \/ visualize_regions_endrow
    \/ print_concentric_square_entry
    \/ print_concentric_square_row
    \/ print_concentric_square_cell
    \/ print_concentric_square_endrow

NextTriangle ==
    \/ triangle_main_scanf
    \/ triangle_main_user
    \/ triangle_main_example1
    \/ triangle_main_example2
    \/ triangle_main_return
    \/ print_triangle_entry
    \/ print_triangle_star
    \/ print_triangle_return

Next == NextSquare \/ NextTriangle

Spec == Init /\ [][Next]_vars

SpecInt == InitInt /\ [][NextTriangle]_vars

---------------------------------------------------------------------------
(* Vocabulary of the properties: plain integers, no int arithmetic *)

\* the k-th triangular number
T(k) == (k * (k + 1)) \div 2
Min(a, b) == IF a < b THEN a ELSE b
Min4(a, b, c, d) == Min(Min(a, b), Min(c, d))

\* the returned calls of function f, as indices of calls
CallsOf(f) == {k \in 1 .. Len(calls) : calls[k].fn = f}
\* the finished lines a returned call wrote
LinesOf(c) == SubSeq(stdout.lines, c.first, c.last)
\* rows is a d x d grid of "%d " tokens
IsGrid(rows, d) ==
    /\ Len(rows) = d
    /\ \A r \in 1 .. d :
         /\ Len(rows[r]) = d
         /\ \A k \in 1 .. d : rows[r][k].fmt = "%d "
\* the integer at row ii, column jj (0-indexed) of a grid
At(rows, ii, jj) == rows[ii + 1][jj + 1].arg
\* the line holding only the error message
ErrLine == <<Tok(ErrMsg, 0)>>

\* the n = 4 example of the doc comment of print_concentric_square and of the spec
Grid4 ==
    << <<4, 4, 4, 4, 4, 4, 4>>,
       <<4, 3, 3, 3, 3, 3, 4>>,
       <<4, 3, 2, 2, 2, 3, 4>>,
       <<4, 3, 2, 1, 2, 3, 4>>,
       <<4, 3, 2, 2, 2, 3, 4>>,
       <<4, 3, 3, 3, 3, 3, 4>>,
       <<4, 4, 4, 4, 4, 4, 4>> >>

\* the cell value by the split the doc comment states: upper-left when
\* i + j < m - 1, lower-right when i + j >= m - 1
DocCell(nn, mm, ii, jj) ==
    IF ii + jj < mm - 1
      THEN (IF nn - ii > nn - jj THEN nn - ii ELSE nn - jj)
      ELSE (IF ii - nn > jj - nn THEN ii - nn ELSE jj - nn) + 2

---------------------------------------------------------------------------
(* C1: for n >= 1 the integer print_concentric_square(n) prints at row i,    *)
(* column j of its (2n-1) x (2n-1) grid is n - min(i, j, m-1-i, m-1-j); for  *)
(* n = 4 the grid is the 7 x 7 grid of the doc comment.                      *)
C1_DistanceFromNearestEdge ==
    \A k \in CallsOf("print_concentric_square") :
      calls[k].n >= 1 =>
        LET nn == calls[k].n
            mm == 2 * nn - 1
            rows == LinesOf(calls[k])
        IN  /\ IsGrid(rows, mm)
            /\ \A ii, jj \in 0 .. mm - 1 :
                 At(rows, ii, jj) = nn - Min4(ii, jj, mm - 1 - ii, mm - 1 - jj)
            /\ nn = 4 => [r \in 1 .. 7 |-> [col \in 1 .. 7 |-> rows[r][col].arg]] = Grid4

\* print_concentric_square(4), called on the user's input, has returned
C1_Witness ==
    \E k \in CallsOf("print_concentric_square") :
      /\ calls[k].n = 4
      /\ k <= 2
      /\ calls[k].last - calls[k].first + 1 = 7

C3_InvalidInputOnlyMessage ==
    /\ \A k \in CallsOf("print_concentric_square") \cup CallsOf("print_triangle") :
         calls[k].n <= 0 =>
           /\ LinesOf(calls[k]) = <<ErrLine>>
           /\ calls[k].open = <<>>
    /\ (pc \in {"pcs_i", "pcs_j", "pt_loop"}) => n >= 1
    /\ (pc = "exit" /\ stdin.parsed /\ stdin.val <= 0) =>
         /\ status = 0
         /\ Len(calls) >= 3
         /\ calls[Len(calls)].n >= 1

\* a run on 0 or on -5 has gone through the rejected call to its exit
C3_Witness ==
    /\ pc = "exit"
    /\ stdin.parsed
    /\ stdin.val \in {0, -5}
    /\ \E k \in CallsOf("print_concentric_square") \cup CallsOf("print_triangle") :
         calls[k].n = stdin.val /\ LinesOf(calls[k]) = <<ErrLine>>

(* C4: for n >= 1 print_concentric_square(n) emits exactly 2n-1 rows of      *)
(* exactly 2n-1 integers, each row ended by a line break; every value lies   *)
(* in 1..n, the value n is printed only at border cells, and the centre      *)
(* cell (n-1, n-1) has value 1.                                              *)
C4_GridShapeAndRange ==
    \A k \in CallsOf("print_concentric_square") :
      calls[k].n >= 1 =>
        LET nn == calls[k].n
            mm == 2 * nn - 1
            rows == LinesOf(calls[k])
        IN  /\ IsGrid(rows, mm)
            /\ calls[k].open = <<>>
            /\ \A ii, jj \in 0 .. mm - 1 :
                 /\ At(rows, ii, jj) \in 1 .. nn
                 /\ At(rows, ii, jj) = nn =>
                      (ii = 0 \/ jj = 0 \/ ii = mm - 1 \/ jj = mm - 1)
            /\ At(rows, nn - 1, nn - 1) = 1

\* a grid with inner cells has been printed: the user's n is at least 3
C4_Witness ==
    \E k \in CallsOf("print_concentric_square") :
      /\ calls[k].n >= 3
      /\ k <= 2
      /\ Len(LinesOf(calls[k])) = 2 * calls[k].n - 1

(* C5: for n >= 1 the grid print_concentric_square(n) prints is symmetric    *)
(* under transpose and under 180-degree rotation.                            *)
C5_Symmetry ==
    \A k \in CallsOf("print_concentric_square") :
      calls[k].n >= 1 =>
        LET mm == 2 * calls[k].n - 1
            rows == LinesOf(calls[k])
        IN  /\ IsGrid(rows, mm)
            /\ \A ii, jj \in 0 .. mm - 1 :
                 /\ At(rows, ii, jj) = At(rows, jj, ii)
                 /\ At(rows, ii, jj) = At(rows, mm - 1 - ii, mm - 1 - jj)

\* a grid whose two regions both hold off-diagonal cells has been printed
C5_Witness ==
    \E k \in CallsOf("print_concentric_square") :
      /\ calls[k].n >= 2
      /\ Len(LinesOf(calls[k])) = 2 * calls[k].n - 1
      /\ LinesOf(calls[k])[1][2].arg = LinesOf(calls[k])[2][1].arg

(* C6: in both programs, when the token does not parse as an integer main   *)
(* prints the invalid-input message, calls no function and exits with        *)
(* status 1; whenever an integer is parsed, n <= 0 included, it exits with   *)
(* status 0 after the output for the user's n and then the two hard-coded    *)
(* examples, in this order: 3 then 5 (square), 3 then 6 (triangle).          *)
Renderer == IF prog = "square" THEN "print_concentric_square" ELSE "print_triangle"
\* the (function, n) pairs of the rendering calls that have returned, in order
Rendered ==
    LET ks == CallsOf(Renderer)
        nth[q \in 0 .. Len(calls)] ==
            IF q = 0 THEN <<>>
            ELSE IF q \in ks THEN Append(nth[q - 1], calls[q]) ELSE nth[q - 1]
    IN  nth[Len(calls)]

C6_ExitStatusAndOrder ==
    /\ (pc # "exit") <=> (status = NoStatus)
    /\ ~stdin.parsed =>
         /\ calls = <<>>
         /\ pc \in {"main", "exit"}
         /\ pc = "exit" =>
              /\ status = 1
              /\ Len(stdout.lines) = 4
              /\ Len(stdout.lines[4]) = 2
              /\ stdout.lines[4][2] = Tok(InvalidMsg, 0)
              /\ stdout.line = <<>>
    /\ (stdin.parsed /\ pc = "exit") =>
         /\ status = 0
         /\ Len(Rendered) = 3
         /\ Rendered[1].n = stdin.val
         /\ Rendered[2].n = 3
         /\ Rendered[3].n = (IF prog = "square" THEN 5 ELSE 6)
         /\ Rendered[1].last < Rendered[2].first
         /\ Rendered[2].last < Rendered[3].first
         /\ \A q \in 1 .. 3 :
              IF Rendered[q].n <= 0
                THEN LinesOf(Rendered[q]) = <<ErrLine>>
                ELSE Len(LinesOf(Rendered[q])) =
                       (IF prog = "square" THEN 2 * Rendered[q].n - 1 ELSE Rendered[q].n)
         /\ \A k \in 1 .. Len(calls) : calls[k].fn \in {Renderer, "visualize_regions"}

\* the triangle program has exited after an input n <= 0 and both examples
C6_Witness ==
    /\ prog = "triangle"
    /\ pc = "exit"
    /\ stdin.parsed
    /\ stdin.val <= 0
    /\ status = 0
    /\ Len(calls) = 3

C8_SplitsAgree ==
    /\ (pc = "pcs_j" /\ j < m /\ i + j = m - 1) =>
         UpperLeft(n, i, j) = LowerRight(n, i, j)
    /\ (pc = "pcs_j" /\ j > 0) =>
         stdout.line[j] = Tok("%d ", DocCell(n, m, i, j - 1))
    /\ \A k \in CallsOf("print_concentric_square") :
         calls[k].n >= 1 =>
           LET mm == 2 * calls[k].n - 1
               rows == LinesOf(calls[k])
           IN  /\ IsGrid(rows, mm)
               /\ \A ii, jj \in 0 .. mm - 1 :
                    At(rows, ii, jj) = DocCell(calls[k].n, mm, ii, jj)

\* an anti-diagonal cell off the centre has just been printed
C8_Witness ==
    /\ pc = "pcs_j"
    /\ n >= 2
    /\ j >= 1
    /\ i + (j - 1) = m - 1
    /\ i # j - 1
    /\ Len(stdout.line) = j

C10_TotalIsTriangular ==
    /\ (pc = "pt_loop" /\ T(n) <= INT_MAX) =>
         /\ total = T(n)
         /\ row * (row + 1) <= INT_MAX
    /\ \A k \in CallsOf("print_triangle") :
         (calls[k].n >= 1 /\ T(calls[k].n) <= INT_MAX) =>
           Len(LinesOf(calls[k])) = calls[k].n

====
